---- MODULE Spec2Model ----
(***************************************************************************)
(* The client-side PDF page cache (src/lib/cache.ts) and the prefetch      *)
(* coordinators built on it (src/app/file-browser.tsx and                  *)
(* src/app/file/[...path]/page.tsx).                                       *)
(*                                                                         *)
(* A JavaScript Map is modelled as the sequence of its entries in          *)
(* insertion order: Map.keys().next().value is the key of the first entry, *)
(* Map.delete removes an entry, Map.set on a missing key appends and       *)
(* Map.set on a present key replaces the value in place.                   *)
(***************************************************************************)
EXTENDS Integers, Sequences, FiniteSets, TLC

(***************************************************************************)
(* Bounds of the exploration.                                              *)
(***************************************************************************)
\* non-empty document keys 1..NKeys, one more than the capacity
NKeys == 11
\* calls of the cache API beyond the first insertion of each new key
MaxExtraCalls == 1
\* documents that are prefetched or opened: keys 1..NDocs
NDocs == 2
\* largest page count of a document or of a manifest entry
MaxPages == 2
\* asynchronous operations (prefetches and direct loads) alive at a time
MaxTasks == 2
\* calls made by the user interface: prefetches, viewer moves, manifest
MaxCalls == 3
\* the same calls in the behaviours checked for liveness
MaxLiveCalls == 2
\* tokens of a document key in the naming of the page images
MaxKeyLen == 2
\* page numbers in the naming of the page images
MaxPageNum == 1000
\* the keys of the items passed to the files list
NFileKeys == 2
\* the longest batch passed to appendToFilesCache
MaxBatch == 2
\* the object keys of the bucket
NObjKeys == 3
\* the page size of one R2 list call (limit: 1000 in the source)
R2ListLimit == 2
\* the cap of the limit parameter (Math.min(..., 1000) in the source)
LimitCap == 2
\* the limit used when the parameter is missing ("100" in the source)
DefaultLimit == 1

(***************************************************************************)
(* Program constants.                                                      *)
(***************************************************************************)
PDF_CACHE_MAX_SIZE == 10

\* the empty string, the only falsy key
EmptyKey == 0
Keys == 0..NKeys
Truthy(key) == key # EmptyKey
\* keys of listed files and of file routes, never empty
DocKeys == 1..NDocs
\* the two modules that declare a prefetchingSet and a viewer
Modules == {"browser", "page"}

(***************************************************************************)
(* Strings.  A text is a sequence of tokens; a token is a piece of a key   *)
(* or of a URL that the program never splits: a name, "/", an extension,   *)
(* a decimal digit.                                                        *)
(***************************************************************************)
Digit(d) == ToString(d)

\* String(n) of a non-negative integer
RECURSIVE ToDigits(_)
ToDigits(n) ==
    IF n < 10 THEN <<Digit(n)>>
    ELSE ToDigits(n \div 10) \o <<Digit(n % 10)>>

PadStart_None(text, targetLength, fill) == text

\* text.padStart(targetLength, fill) with a fill of one character
RECURSIVE PadStart(_, _, _)
PadStart(text, targetLength, fill) ==
    IF Len(text) >= targetLength THEN text
    ELSE PadStart(<<fill>> \o text, targetLength, fill)

\* text.replace(pattern, replacement) with a string pattern: only the first
\* occurrence is replaced, and the match is case-sensitive
RECURSIVE Replace(_, _, _)
Replace(text, pattern, replacement) ==
    IF text = << >> THEN << >>
    ELSE IF Head(text) = pattern THEN replacement \o Tail(text)
    ELSE <<Head(text)>> \o Replace(Tail(text), pattern, replacement)

\* the text of a document key of the coordinator model
KeyText(key) == IF key = EmptyKey THEN << >> ELSE <<ToString(key), ".pdf">>

(***************************************************************************)
(* Page values.  A page is either a data URL produced by the renderer      *)
(* (canvas.toDataURL) or the URL of a pre-rendered image.                  *)
(***************************************************************************)
WORKER_URL == "https://epstein-files.rhys-669.workers.dev"

DataUrl(key, pageNum) == [kind |-> "data", doc |-> key, page |-> pageNum]

\* const basePath = pdfKey.replace(".pdf", "");
\* const pageStr = String(pageNum).padStart(3, "0");
\* `${WORKER_URL}/pdfs-as-jpegs/${basePath}/page-${pageStr}.jpg`
getPageImageUrl(pdfKey, pageNum) ==
    LET basePath == Replace(pdfKey, ".pdf", << >>)
        pageStr == PadStart(ToDigits(pageNum), 3, "0")
    IN  [kind |-> "jpg",
         text |-> <<WORKER_URL, "/", "pdfs-as-jpegs", "/">> \o basePath
                     \o <<"/", "page-">> \o pageStr \o <<".jpg">>]

\* the object that generate-pdf-images.ts writes for a page of a PDF:
\* outputSubdir = relativePath.replace(".pdf", ""), and in that directory
\* `page-${String(pageCount).padStart(3, "0")}.jpg`
generatePdfImages(relativePath, pageCount) ==
    LET outputSubdir == Replace(relativePath, ".pdf", << >>)
        pageNum == PadStart(ToDigits(pageCount), 3, "0")
    IN  [kind |-> "object",
         text |-> <<"pdfs-as-jpegs", "/">> \o outputSubdir
                     \o <<"/", "page-">> \o pageNum \o <<".jpg">>]

RenderedPages(key, n) == [i \in 1..n |-> DataUrl(key, i)]
loadPagesFromImages(filePath, pageCount) ==
    [i \in 1..pageCount |-> getPageImageUrl(KeyText(filePath), i)]

(***************************************************************************)
(* Map<string, string[]> primitives.                                       *)
(***************************************************************************)
MapKeys(m) == {m[i].key : i \in 1..Len(m)}
MapHas(m, key) == key \in MapKeys(m)
MapIndex(m, key) == CHOOSE i \in 1..Len(m) : m[i].key = key
MapValue(m, key) == m[MapIndex(m, key)].pages
MapDelete(m, key) == SelectSeq(m, LAMBDA e : e.key # key)
MapSet(m, key, pages) ==
    IF MapHas(m, key)
    THEN [m EXCEPT ![MapIndex(m, key)] = [key |-> key, pages |-> pages]]
    ELSE Append(m, [key |-> key, pages |-> pages])

(***************************************************************************)
(* getPdfPages: the value returned and the cache afterwards.               *)
(***************************************************************************)
getPdfPages_NoRefresh(m, key) ==
    IF MapHas(m, key)
    THEN [found |-> TRUE, pages |-> MapValue(m, key), cache |-> m]
    ELSE [found |-> FALSE, pages |-> << >>, cache |-> m]

getPdfPages_Miss(m, key) == [found |-> FALSE, pages |-> << >>, cache |-> m]

getPdfPages_Drop(m, key) ==
    IF MapHas(m, key)
    THEN [found |-> TRUE, pages |-> MapValue(m, key),
          cache |-> MapDelete(m, key)]
    ELSE [found |-> FALSE, pages |-> << >>, cache |-> m]

getPdfPages_ToFront(m, key) ==
    IF MapHas(m, key)
    THEN [found |-> TRUE, pages |-> MapValue(m, key),
          cache |-> <<[key |-> key, pages |-> MapValue(m, key)]>>
                    \o MapDelete(m, key)]
    ELSE [found |-> FALSE, pages |-> << >>, cache |-> m]

getPdfPages(m, key) ==
    IF MapHas(m, key)
    THEN [found |-> TRUE, pages |-> MapValue(m, key),
          cache |-> MapSet(MapDelete(m, key), key, MapValue(m, key))]
    ELSE [found |-> FALSE, pages |-> << >>, cache |-> m]

(***************************************************************************)
(* setPdfPages, in the three stages of its body.                           *)
(***************************************************************************)
\* if (pdfPagesCache.has(key)) pdfPagesCache.delete(key)
SetDeleteExisting_Keep(m, key) == m

SetDeleteExisting(m, key) == IF MapHas(m, key) THEN MapDelete(m, key) ELSE m

\* while (size >= MAX) { oldestKey = keys().next().value;
\*                       if (oldestKey) delete(oldestKey) }
\* The result is the cache when the loop exits, or the cache on which the
\* loop spins for ever: full, with a falsy oldest key.
AtCapacity_Above(m) == Len(m) > PDF_CACHE_MAX_SIZE

AtCapacity(m) == Len(m) >= PDF_CACHE_MAX_SIZE

RECURSIVE EvictOldest_Newest(_)
EvictOldest_Newest(m) ==
    IF AtCapacity(m) /\ Truthy(m[Len(m)].key)
    THEN EvictOldest_Newest(MapDelete(m, m[Len(m)].key))
    ELSE m

RECURSIVE EvictOldest(_)
EvictOldest(m) ==
    IF AtCapacity(m) /\ Truthy(m[1].key)
    THEN EvictOldest(MapDelete(m, m[1].key))
    ELSE m

EvictDiverges(m) == AtCapacity(EvictOldest(m))

\* the states the Map passes through during one call, in order
SetTrace(m, key, pages) ==
    LET c1 == SetDeleteExisting(m, key)
        c2 == EvictOldest(c1)
    IN  IF EvictDiverges(c1)
        THEN <<c1, c2>>
        ELSE <<c1, c2, MapSet(c2, key, pages)>>

setPdfPages(m, key, pages) ==
    LET tr == SetTrace(m, key, pages)
    IN  [cache |-> tr[Len(tr)],
         returned |-> ~EvictDiverges(SetDeleteExisting(m, key)),
         peak |-> CHOOSE n \in {Len(tr[i]) : i \in 1..Len(tr)} :
                     \A j \in 1..Len(tr) : Len(tr[j]) <= n]

clearPdfCache_IfFull(m) == IF AtCapacity(m) THEN << >> ELSE m

\* pdfPagesCache.clear()
clearPdfCache(m) == << >>

(***************************************************************************)
(* State.                                                                  *)
(***************************************************************************)
VARIABLES
    pdfPagesCache,  \* the Map of src/lib/cache.ts, oldest entry first
    hung,           \* TRUE once a call spins for ever in the eviction loop
    last,           \* the most recent call of the cache API and its effect
    lastUse,        \* per key, the time of its latest set or successful get
    lastSet,        \* per key, the pages most recently passed to setPdfPages
    now,            \* number of cache calls made so far
    seen,           \* keys that were an argument of some call
    extraCalls,     \* calls counted against MaxExtraCalls
    insLog,         \* the entries set so far while every call was a set of
                    \* a new key; << >> and never used again otherwise
    pdfManifest,    \* the manifest of src/lib/cache.ts, or not loaded
    prefetchingSet, \* per module, its Set of keys being prefetched
    tasks,          \* the running prefetchPdf / loadPages / loadPdf calls
    viewer,         \* per module, the React state of its viewer component
    docPages,       \* per document, the page count the renderer reports
    calls,          \* calls counted against MaxCalls
    failedPrefetch, \* the <<module, key>> pairs of the prefetches that failed
    ev,             \* the step just taken
    filesCache,     \* the files list of src/lib/cache.ts
    filesCall,      \* the most recent call of the files list API
    bucket,         \* per object key of the R2 bucket: absent, a PDF, other
    listing         \* a client paging through /api/files

\* the files list and the listing share nothing with the page cache and
\* the coordinators: no step of those touches them
listVars == <<filesCache, filesCall, bucket, listing>>
cacheVars == <<pdfPagesCache, hung, last, lastUse, lastSet, now, seen,
               extraCalls, insLog, listVars>>
ghostVars == <<last, lastUse, lastSet, now, seen, extraCalls, insLog,
               listVars>>
coordVars == <<pdfManifest, prefetchingSet, tasks, viewer, docPages, calls,
               failedPrefetch, ev>>
vars == <<cacheVars, coordVars>>

NoCall == [op |-> "none", key |-> EmptyKey, pages |-> << >>, pre |-> << >>,
           found |-> FALSE, ret |-> << >>, peak |-> 0, returned |-> TRUE,
           pure |-> TRUE]

\* let pdfManifest: PdfManifest | null = null
NoManifest == [loaded |-> FALSE, entries |-> << >>]

FreeTask == [kind |-> "free", mod |-> "browser", key |-> EmptyKey,
             pc |-> "done", numPages |-> 0, pageNum |-> 0,
             renderedPages |-> << >>, imageUrls |-> << >>, pending |-> 0,
             errors |-> 0, cancelled |-> FALSE, stale |-> FALSE]

\* the error state of a viewer: null, or a message (which may be "")
NoError == << >>
Message(text) == <<text>>

\* useState initial values of a viewer that is not mounted
Unmounted == [mounted |-> FALSE, filePath |-> EmptyKey, pages |-> << >>,
              loading |-> TRUE, error |-> NoError, totalPages |-> 0]

\* result is the state of the promise of the async call the step belongs
\* to; errors counts the image loads of a settled batch that ended in error
NoEvent == [op |-> "none", kind |-> "none", mod |-> "browser",
            key |-> EmptyKey, outcome |-> "none", result |-> "none",
            errors |-> 0]

\* let filesCache = { files: [], cursor: null, hasMore: true }
EmptyFilesCache == [files |-> << >>, cursor |-> << >>, hasMore |-> TRUE]

NoFilesCall == [op |-> "none", newFiles |-> << >>, cursor |-> << >>,
                hasMore |-> TRUE]

ObjKeys == 1..NObjKeys

NoResponse == [files |-> << >>, truncated |-> FALSE, cursor |-> << >>,
               totalReturned |-> 0]

NoLimit == [given |-> FALSE, nan |-> FALSE, n |-> 0]

NoListing == [phase |-> "idle", limit |-> NoLimit, response |-> NoResponse,
              received |-> << >>]

InitListVars ==
    /\ filesCache = EmptyFilesCache
    /\ filesCall = NoFilesCall
    /\ bucket = [k \in ObjKeys |-> "absent"]
    /\ listing = NoListing

InitCacheVars ==
    /\ InitListVars
    /\ pdfPagesCache = << >>
    /\ hung = FALSE
    /\ last = NoCall
    /\ lastUse = [k \in Keys |-> 0]
    /\ lastSet = [k \in Keys |-> << >>]
    /\ now = 0
    /\ seen = {}
    /\ extraCalls = 0
    /\ insLog = << >>

InitCoordVars ==
    /\ pdfManifest = NoManifest
    /\ prefetchingSet = [m \in Modules |-> {}]
    /\ tasks = [t \in 1..MaxTasks |-> FreeTask]
    /\ viewer = [m \in Modules |-> Unmounted]
    /\ calls = 0
    /\ failedPrefetch = {}
    /\ ev = NoEvent

\* the page counts of the documents of the bucket: all without pages, or
\* all of MaxPages pages
DocPageCounts == {[k \in DocKeys |-> n] : n \in {0, MaxPages}}

Init ==
    /\ InitCacheVars
    /\ InitCoordVars
    /\ docPages \in DocPageCounts

\* the cache API on its own
InitCache ==
    /\ InitCacheVars
    /\ InitCoordVars
    /\ docPages = [k \in DocKeys |-> 1]

(***************************************************************************)
(* The inputs explored.  Keys are opaque strings (only the empty string    *)
(* is told apart, by the truthiness test), so new non-empty keys are       *)
(* introduced in increasing order.  The first insertion of each new key    *)
(* with rendered pages is free; every other call counts as an extra call.  *)
(***************************************************************************)
NewKeys == {k \in Keys : Truthy(k) /\ k \notin seen}
NextNew == CHOOSE k \in NewKeys : \A j \in NewKeys : k <= j
KnownKeys == seen \cup {EmptyKey} \cup (IF NewKeys = {} THEN {} ELSE {NextNew})
PagesFor(key) == {RenderedPages(key, 1), loadPagesFromImages(key, 2)}
IsFree(key, pages) ==
    /\ NewKeys # {}
    /\ key = NextNew
    /\ pages = RenderedPages(key, 1)
Charge(free) ==
    /\ free \/ extraCalls < MaxExtraCalls
    /\ extraCalls' = IF free THEN extraCalls ELSE extraCalls + 1

(***************************************************************************)
(* The cache API.                                                          *)
(***************************************************************************)
CallSetPdfPages(key, pages) ==
    LET r == setPdfPages(pdfPagesCache, key, pages)
        fresh == key \notin seen
    IN  /\ ~hung
        /\ Charge(IsFree(key, pages))
        /\ pdfPagesCache' = r.cache
        /\ hung' = ~r.returned
        /\ last' = [op |-> "set", key |-> key, pages |-> pages,
                    pre |-> pdfPagesCache, found |-> FALSE, ret |-> << >>,
                    peak |-> r.peak, returned |-> r.returned,
                    pure |-> last.pure /\ fresh]
        /\ now' = now + 1
        /\ lastUse' = IF r.returned THEN [lastUse EXCEPT ![key] = now + 1]
                      ELSE lastUse
        /\ lastSet' = IF r.returned THEN [lastSet EXCEPT ![key] = pages]
                      ELSE lastSet
        /\ seen' = seen \cup {key}
        /\ insLog' = IF last.pure /\ fresh
                     THEN Append(insLog, [key |-> key, pages |-> pages])
                     ELSE << >>
        /\ UNCHANGED <<coordVars, listVars>>

CallGetPdfPages(key) ==
    LET r == getPdfPages(pdfPagesCache, key)
    IN  /\ ~hung
        /\ Charge(FALSE)
        /\ pdfPagesCache' = r.cache
        /\ last' = [op |-> "get", key |-> key, pages |-> << >>,
                    pre |-> pdfPagesCache, found |-> r.found,
                    ret |-> r.pages, peak |-> Len(r.cache),
                    returned |-> TRUE, pure |-> FALSE]
        /\ now' = now + 1
        /\ lastUse' = IF r.found THEN [lastUse EXCEPT ![key] = now + 1]
                      ELSE lastUse
        /\ seen' = seen \cup {key}
        /\ insLog' = << >>
        /\ UNCHANGED <<hung, lastSet, coordVars, listVars>>

CallClearPdfCache ==
    /\ ~hung
    /\ Charge(FALSE)
    /\ pdfPagesCache' = clearPdfCache(pdfPagesCache)
    /\ last' = [op |-> "clear", key |-> EmptyKey, pages |-> << >>,
                pre |-> pdfPagesCache, found |-> FALSE, ret |-> << >>,
                peak |-> 0, returned |-> TRUE, pure |-> FALSE]
    /\ now' = now + 1
    /\ insLog' = << >>
    /\ UNCHANGED <<hung, lastUse, lastSet, seen, coordVars, listVars>>

NextCache ==
    \/ \E key \in KnownKeys : \E pages \in PagesFor(key) :
          CallSetPdfPages(key, pages)
    \/ \E key \in KnownKeys : CallGetPdfPages(key)
    \/ CallClearPdfCache

SpecCache == InitCache /\ [][NextCache]_vars

(***************************************************************************)
(* The manifest store.                                                     *)
(***************************************************************************)
\* manifest?.[filePath] is an entry
HasEntry(manifest, key) == manifest.loaded /\ key \in DOMAIN manifest.entries

\* manifestEntry && manifestEntry.pages > 0
UsesImages(manifest, key) ==
    HasEntry(manifest, key) /\ manifest.entries[key] > 0

\* the manifests /api/pdf-manifest can answer with: document 1 may have an
\* entry, of no pages or of MaxPages pages; the other documents have none
Manifests ==
    {[loaded |-> TRUE, entries |-> [k \in S |-> n]] :
        S \in {{}, {1}}, n \in {0, MaxPages}}

\* the object {}
EmptyManifest == [loaded |-> TRUE, entries |-> << >>]

\* how the fetch of the manifest ends: an OK response, a response that is
\* not OK, a thrown error (network failure, body that is not JSON)
Responses == {"ok", "notOk", "throws"}

fetchPdfManifest_IgnoreStatus(response, data) == data

\* fetchPdfManifest of the root layout
fetchPdfManifest(response, data) ==
    IF response = "ok" THEN data ELSE EmptyManifest

\* the value of pdfManifest after setPdfManifest(manifest)
setPdfManifest(manifest) == manifest

\* number | null
Null == << >>
Number(n) == <<n>>

getPageCount_Falsy(manifest, pdfKey) ==
    IF ~manifest.loaded THEN Null
    ELSE IF pdfKey \in DOMAIN manifest.entries
            /\ manifest.entries[pdfKey] # 0
    THEN Number(manifest.entries[pdfKey])
    ELSE Null

\* if (!pdfManifest) return null; return pdfManifest[pdfKey]?.pages ?? null
getPageCount(manifest, pdfKey) ==
    IF ~manifest.loaded THEN Null
    ELSE IF pdfKey \in DOMAIN manifest.entries
    THEN Number(manifest.entries[pdfKey])
    ELSE Null

(***************************************************************************)
(* Asynchronous operations.  A task is one running call of prefetchPdf     *)
(* (kind "prefetch") or of a viewer's loadPages / loadPdf (kind "load");   *)
(* pc names the promise it is suspended on.                                *)
(***************************************************************************)
Slots == 1..MaxTasks
FreeSlots == {t \in Slots : tasks[t].kind = "free"}
NextSlot == CHOOSE t \in FreeSlots : \A u \in FreeSlots : t <= u
Active(t) == tasks[t].kind # "free"

\* the part of a pipeline that runs before its first await: only the file
\* browser consults the manifest
StartTaskWith(manifest, kind, mod, key) ==
    IF mod = "browser" /\ UsesImages(manifest, key)
    THEN [FreeTask EXCEPT !.kind = kind, !.mod = mod, !.key = key,
             !.pc = "urls",
             !.imageUrls =
                 loadPagesFromImages(key, manifest.entries[key])]
    ELSE [FreeTask EXCEPT !.kind = kind, !.mod = mod, !.key = key,
             !.pc = "import"]

StartTask(kind, mod, key) == StartTaskWith(pdfManifest, kind, mod, key)

CacheWrite_Skip(key, pages) == UNCHANGED <<pdfPagesCache, hung>>

\* setPdfPages(filePath, pages) inside a prefetch or a load
CacheWrite(key, pages) ==
    LET r == setPdfPages(pdfPagesCache, key, pages)
    IN  /\ pdfPagesCache' = r.cache
        /\ hung' = ~r.returned

CatchOutcome_Rethrow(kind) ==
    IF kind = "prefetch" THEN "rejected" ELSE "fulfilled"

\* catch { } of prefetchPdf and catch (err) { ... } of a load both end the
\* async function normally
CatchOutcome(kind) == "fulfilled"

\* the promise of the async function after a step
PromiseAfter(op, kind, outcome) ==
    IF op = "settle"
    THEN IF outcome = "failed" THEN CatchOutcome(kind) ELSE "fulfilled"
    ELSE IF op = "prefetch"
    THEN IF outcome = "claimed" THEN "pending" ELSE "fulfilled"
    ELSE IF op = "open"
    THEN IF outcome = "load" THEN "pending" ELSE "none"
    ELSE IF op = "manifest" THEN "fulfilled"
    ELSE IF kind = "none" \/ op = "close" THEN "none"
    ELSE "pending"

EventOf(op, kind, mod, key, outcome, errors) ==
    ev' = [op |-> op, kind |-> kind, mod |-> mod, key |-> key,
           outcome |-> outcome, result |-> PromiseAfter(op, kind, outcome),
           errors |-> errors]

Event(op, kind, mod, key, outcome) ==
    EventOf(op, kind, mod, key, outcome, 0)

\* the route on display: FilePage is the page of /file/..., FileBrowser
\* with its FileModal the page of every other route
Route == IF viewer["page"].mounted THEN "page" ELSE "browser"

\* a call made by the user interface
UiCall ==
    /\ calls < MaxCalls
    /\ calls' = calls + 1
    /\ UNCHANGED failedPrefetch

Release_Never(t) == prefetchingSet' = prefetchingSet

Release_All(t) ==
    prefetchingSet' =
        IF tasks[t].kind = "prefetch"
        THEN [prefetchingSet EXCEPT ![tasks[t].mod] = {}]
        ELSE prefetchingSet

Release_IfPages(t) ==
    prefetchingSet' =
        IF /\ tasks[t].kind = "prefetch"
           /\ tasks[t].renderedPages \o tasks[t].imageUrls # << >>
        THEN [prefetchingSet EXCEPT ![tasks[t].mod] = @ \ {tasks[t].key}]
        ELSE prefetchingSet

\* finally { prefetchingSet.delete(filePath) }
Release(t) ==
    prefetchingSet' =
        IF tasks[t].kind = "prefetch"
        THEN [prefetchingSet EXCEPT ![tasks[t].mod] = @ \ {tasks[t].key}]
        ELSE prefetchingSet

\* a state write of a load reaches the viewer unless its component
\* instance is gone
Write(t, v) ==
    viewer' = IF tasks[t].kind = "load" /\ ~tasks[t].stale
              THEN [viewer EXCEPT ![tasks[t].mod] = v]
              ELSE viewer

\* finally { if (!cancelled) setLoading(false) } of a load
FinallyLoading(t, v) ==
    IF tasks[t].cancelled THEN v ELSE [v EXCEPT !.loading = FALSE]

(***************************************************************************)
(* The root layout fetches the manifest; the effect of FilesProvider hands  *)
(* it to setPdfManifest.                                                   *)
(***************************************************************************)
SetPdfManifest(response, data) ==
    /\ ~hung
    /\ UiCall
    /\ pdfManifest' = setPdfManifest(fetchPdfManifest(response, data))
    /\ Event("manifest", "none", "browser", EmptyKey,
             IF response = "ok" THEN "set" ELSE "failed")
    /\ UNCHANGED <<cacheVars, prefetchingSet, tasks, viewer, docPages>>

\* prefetchingSet.has(filePath)
AlreadyPrefetching_Never(mod, key) == FALSE

AlreadyPrefetching(mod, key) == key \in prefetchingSet[mod]

(***************************************************************************)
(* prefetchPdf up to its first await.                                      *)
(***************************************************************************)
PrefetchPdf(mod, key) ==
    LET g == getPdfPages(pdfPagesCache, key)
    IN  /\ ~hung
        /\ UiCall
        /\ Route = mod
        /\ pdfPagesCache' = g.cache
        /\ IF g.found
           THEN /\ Event("prefetch", "prefetch", mod, key, "cached")
                /\ UNCHANGED <<prefetchingSet, tasks>>
           ELSE IF AlreadyPrefetching(mod, key)
           THEN /\ Event("prefetch", "prefetch", mod, key, "inflight")
                /\ UNCHANGED <<prefetchingSet, tasks>>
           ELSE /\ FreeSlots # {}
                /\ prefetchingSet' =
                      [prefetchingSet EXCEPT ![mod] = @ \cup {key}]
                /\ tasks' = [tasks EXCEPT ![NextSlot] =
                                 StartTask("prefetch", mod, key)]
                /\ Event("prefetch", "prefetch", mod, key, "claimed")
        /\ UNCHANGED <<hung, ghostVars, pdfManifest, viewer, docPages>>

(***************************************************************************)
(* The continuations of a task, one per await.                             *)
(***************************************************************************)
\* what an awaited promise can reject with: an Error with a message, an
\* Error whose message is empty, a value that is not an Error
Rejections == {"Error", "EmptyError", "value"}

\* err instanceof Error ? err.message : "Failed to load PDF"
ErrorText(err) ==
    IF err = "Error" THEN "Invalid PDF structure"
    ELSE IF err = "EmptyError" THEN ""
    ELSE "Failed to load PDF"

\* catch and finally of a task whose awaited promise rejected with err
FailWith(t, err) ==
    LET v == viewer[tasks[t].mod]
        v1 == IF tasks[t].cancelled THEN v
              ELSE [v EXCEPT !.error = Message(ErrorText(err))]
    IN  /\ tasks' = [tasks EXCEPT ![t] = FreeTask]
        /\ Release(t)
        /\ Write(t, FinallyLoading(t, v1))
        /\ Event("settle", tasks[t].kind, tasks[t].mod, tasks[t].key,
                 "failed")
        /\ failedPrefetch' =
              IF tasks[t].kind = "prefetch"
              THEN failedPrefetch \cup {<<tasks[t].mod, tasks[t].key>>}
              ELSE failedPrefetch
        /\ UNCHANGED <<cacheVars, pdfManifest, docPages, calls>>

Fail(t) == \E err \in Rejections : FailWith(t, err)

\* await loadPagesFromImages(...) resumes
UrlsResolved(t) ==
    LET T == tasks[t]
        v == viewer[T.mod]
    IN  /\ ~hung
        /\ T.pc = "urls"
        /\ IF T.kind = "prefetch"
           THEN /\ tasks' = [tasks EXCEPT ![t].pc = "images",
                                          ![t].pending = Len(T.imageUrls)]
                /\ Event("images", T.kind, T.mod, T.key, "started")
                /\ UNCHANGED <<cacheVars, prefetchingSet, viewer>>
           ELSE IF T.cancelled
           THEN /\ tasks' = [tasks EXCEPT ![t] = FreeTask]
                /\ Event("settle", T.kind, T.mod, T.key, "cancelled")
                /\ UNCHANGED <<cacheVars, prefetchingSet, viewer>>
           ELSE /\ tasks' = [tasks EXCEPT ![t] = FreeTask]
                /\ CacheWrite(T.key, T.imageUrls)
                /\ Write(t, [v EXCEPT !.pages = T.imageUrls,
                                      !.loading = FALSE])
                /\ Event("settle", T.kind, T.mod, T.key, "done")
                /\ UNCHANGED <<ghostVars, prefetchingSet>>
        /\ UNCHANGED <<pdfManifest, docPages, calls, failedPrefetch>>

ImageResolves_OnlyOnLoad(ok) == ok

\* img.onload = () => resolve(); img.onerror = () => resolve()
ImageResolves(ok) == TRUE

\* img.onload or img.onerror of one of the images of Promise.all
ImageSettles(t, ok) ==
    /\ ~hung
    /\ tasks[t].pc = "images"
    /\ tasks[t].pending > 0
    /\ IF ImageResolves(ok)
       THEN /\ tasks' = [tasks EXCEPT ![t].pending = @ - 1,
                                      ![t].errors =
                                          IF ok THEN @ ELSE @ + 1]
            /\ Event("image", tasks[t].kind, tasks[t].mod, tasks[t].key,
                     IF ok THEN "load" ELSE "error")
            /\ UNCHANGED <<cacheVars, pdfManifest, prefetchingSet, viewer,
                           docPages, calls, failedPrefetch>>
       ELSE Fail(t)

\* await Promise.all(...) resumes
ImagesSettled(t) ==
    /\ ~hung
    /\ tasks[t].pc = "images"
    /\ tasks[t].pending = 0
    /\ CacheWrite(tasks[t].key, tasks[t].imageUrls)
    /\ tasks' = [tasks EXCEPT ![t] = FreeTask]
    /\ Release(t)
    /\ EventOf("settle", tasks[t].kind, tasks[t].mod, tasks[t].key, "done",
               tasks[t].errors)
    /\ UNCHANGED <<ghostVars, pdfManifest, viewer, docPages, calls,
                   failedPrefetch>>

\* await import("pdfjs-dist") settles
ImportSettles(t, ok) ==
    /\ ~hung
    /\ tasks[t].pc = "import"
    /\ IF ok
       THEN /\ tasks' = [tasks EXCEPT ![t].pc = "getDocument"]
            /\ Event("import", tasks[t].kind, tasks[t].mod, tasks[t].key,
                     "ok")
            /\ UNCHANGED <<cacheVars, pdfManifest, prefetchingSet, viewer,
                           docPages, calls, failedPrefetch>>
       ELSE Fail(t)

\* await loadingTask.promise settles
GetDocumentSettles(t, ok) ==
    LET T == tasks[t]
        v == viewer[T.mod]
        n == docPages[T.key]
        vTotal == IF T.mod = "page" THEN [v EXCEPT !.totalPages = n] ELSE v
    IN  /\ ~hung
        /\ T.pc = "getDocument"
        /\ IF ~ok THEN Fail(t)
           ELSE IF T.kind = "load" /\ T.cancelled
           THEN /\ tasks' = [tasks EXCEPT ![t] = FreeTask]
                /\ Event("settle", T.kind, T.mod, T.key, "cancelled")
                /\ UNCHANGED <<cacheVars, pdfManifest, prefetchingSet,
                               viewer, docPages, calls, failedPrefetch>>
           ELSE IF n >= 1
           THEN /\ tasks' = [tasks EXCEPT ![t].pc = "getPage",
                                          ![t].numPages = n,
                                          ![t].pageNum = 1]
                /\ Write(t, vTotal)
                /\ Event("getDocument", T.kind, T.mod, T.key, "ok")
                /\ UNCHANGED <<cacheVars, pdfManifest, prefetchingSet,
                               docPages, calls, failedPrefetch>>
           ELSE /\ tasks' = [tasks EXCEPT ![t] = FreeTask]
                /\ Release(t)
                /\ Write(t, FinallyLoading(t, vTotal))
                /\ Event("settle", T.kind, T.mod, T.key, "empty")
                /\ UNCHANGED <<cacheVars, pdfManifest, docPages, calls,
                               failedPrefetch>>

\* await pdf.getPage(pageNum) settles
GetPageSettles(t, ok) ==
    /\ ~hung
    /\ tasks[t].pc = "getPage"
    /\ IF ok
       THEN /\ tasks' = [tasks EXCEPT ![t].pc = "render"]
            /\ Event("getPage", tasks[t].kind, tasks[t].mod, tasks[t].key,
                     "ok")
            /\ UNCHANGED <<cacheVars, pdfManifest, prefetchingSet, viewer,
                           docPages, calls, failedPrefetch>>
       ELSE Fail(t)

Push_Front(pages, dataUrl) == <<dataUrl>> \o pages

\* renderedPages.push(dataUrl)
Push(pages, dataUrl) == Append(pages, dataUrl)

MorePages_Never(pageNum, numPages) == FALSE

\* pageNum++ ; pageNum <= pdf.numPages
MorePages(pageNum, numPages) == pageNum + 1 <= numPages

\* await page.render(...).promise settles
WritesCache_Always(T) == TRUE

\* if (!cancelled && renderedPages.length > 0) of a load after its last
\* page; a prefetch has no cancelled flag
WritesCache(T) == ~(T.kind = "load" /\ T.cancelled)

RenderSettles(t, ok) ==
    LET T == tasks[t]
        v == viewer[T.mod]
        rp == Push(T.renderedPages, DataUrl(T.key, T.pageNum))
        \* setPages([...renderedPages]) of a load
        vPages == [v EXCEPT !.pages = rp]
    IN  /\ ~hung
        /\ T.pc = "render"
        /\ IF ~ok THEN Fail(t)
           ELSE IF MorePages(T.pageNum, T.numPages)
           THEN IF T.kind = "load" /\ T.cancelled
                THEN /\ tasks' = [tasks EXCEPT ![t] = FreeTask]
                     /\ Write(t, vPages)
                     /\ Event("settle", T.kind, T.mod, T.key, "cancelled")
                     /\ UNCHANGED <<cacheVars, pdfManifest, prefetchingSet,
                                    docPages, calls, failedPrefetch>>
                ELSE /\ tasks' = [tasks EXCEPT ![t].pc = "getPage",
                                               ![t].pageNum = @ + 1,
                                               ![t].renderedPages = rp]
                     /\ Write(t, vPages)
                     /\ Event("render", T.kind, T.mod, T.key, "ok")
                     /\ UNCHANGED <<cacheVars, pdfManifest, prefetchingSet,
                                    docPages, calls, failedPrefetch>>
           ELSE /\ tasks' = [tasks EXCEPT ![t] = FreeTask]
                /\ Release(t)
                /\ Write(t, FinallyLoading(t, vPages))
                /\ IF WritesCache(T)
                   THEN /\ CacheWrite(T.key, rp)
                        /\ Event("settle", T.kind, T.mod, T.key, "done")
                   ELSE /\ Event("settle", T.kind, T.mod, T.key, "cancelled")
                        /\ UNCHANGED <<pdfPagesCache, hung>>
                /\ UNCHANGED <<ghostVars, pdfManifest, docPages, calls,
                               failedPrefetch>>

(***************************************************************************)
(* The viewers: FileModal of the file browser and FilePage.                *)
(***************************************************************************)
\* the cleanup function of the load effect: cancelled = true
Cancel(mod, unmount) ==
    [t \in Slots |->
        IF tasks[t].kind = "load" /\ tasks[t].mod = mod
        THEN [tasks[t] EXCEPT !.cancelled = TRUE,
                              !.stale = @ \/ unmount]
        ELSE tasks[t]]

\* the viewer is mounted on, or moves to, the document key: the effect
\* with dependencies [fileUrl, filePath] runs
OpenViewer(mod, key) ==
    LET g == getPdfPages(pdfPagesCache, key)
        v == viewer[mod]
        \* useState initial values of a new component instance
        v0 == IF v.mounted THEN v
              ELSE IF mod = "page" /\ g.found
              THEN [Unmounted EXCEPT !.pages = g.pages, !.loading = FALSE,
                                     !.totalPages = Len(g.pages)]
              ELSE Unmounted
        shown == [v0 EXCEPT !.mounted = TRUE, !.filePath = key,
                            !.error = NoError]
        hit == g.found /\ Len(g.pages) > 0
        cancelledTasks == Cancel(mod, FALSE)
    IN  /\ ~hung
        /\ UiCall
        /\ ~v.mounted \/ v.filePath # key
        /\ \A other \in Modules \ {mod} : ~viewer[other].mounted
        /\ pdfPagesCache' = g.cache
        /\ IF hit
           THEN /\ viewer' = [viewer EXCEPT ![mod] =
                     [shown EXCEPT !.pages = g.pages, !.loading = FALSE,
                         !.totalPages =
                             IF mod = "page" THEN Len(g.pages) ELSE @]]
                /\ tasks' = cancelledTasks
                /\ Event("open", "load", mod, key, "cached")
           ELSE /\ FreeSlots # {}
                /\ viewer' = [viewer EXCEPT ![mod] =
                     [shown EXCEPT !.pages = << >>, !.loading = TRUE,
                         !.totalPages = IF mod = "page" THEN 0 ELSE @]]
                /\ tasks' = [cancelledTasks EXCEPT ![NextSlot] =
                                 StartTask("load", mod, key)]
                /\ Event("open", "load", mod, key, "load")
        /\ UNCHANGED <<hung, ghostVars, pdfManifest, prefetchingSet,
                       docPages>>

\* the viewer is unmounted
CloseViewer(mod) ==
    /\ ~hung
    /\ UiCall
    /\ viewer[mod].mounted
    /\ viewer' = [viewer EXCEPT ![mod] = Unmounted]
    /\ tasks' = Cancel(mod, TRUE)
    /\ Event("close", "load", mod, viewer[mod].filePath, "unmounted")
    /\ UNCHANGED <<cacheVars, pdfManifest, prefetchingSet, docPages>>

\* FilePage renders again: const cachedPages = getPdfPages(filePath)
FilePageRender ==
    /\ ~hung
    /\ UiCall
    /\ viewer["page"].mounted
    /\ pdfPagesCache' =
          getPdfPages(pdfPagesCache, viewer["page"].filePath).cache
    /\ Event("render", "none", "page", viewer["page"].filePath, "component")
    /\ UNCHANGED <<hung, ghostVars, pdfManifest, prefetchingSet, tasks, viewer,
                   docPages>>

Next ==
    \/ \E response \in Responses, data \in Manifests :
          SetPdfManifest(response, data)
    \/ \E mod \in Modules, key \in DocKeys : PrefetchPdf(mod, key)
    \/ \E t \in Slots : UrlsResolved(t)
    \/ \E t \in Slots, ok \in BOOLEAN : ImageSettles(t, ok)
    \/ \E t \in Slots : ImagesSettled(t)
    \/ \E t \in Slots, ok \in BOOLEAN : ImportSettles(t, ok)
    \/ \E t \in Slots, ok \in BOOLEAN : GetDocumentSettles(t, ok)
    \/ \E t \in Slots, ok \in BOOLEAN : GetPageSettles(t, ok)
    \/ \E t \in Slots, ok \in BOOLEAN : RenderSettles(t, ok)
    \/ \E mod \in Modules, key \in DocKeys : OpenViewer(mod, key)
    \/ \E mod \in Modules : CloseViewer(mod)
    \/ FilePageRender

Spec == Init /\ [][Next]_vars

(***************************************************************************)
(* The manifest API of src/lib/cache.ts on its own: setPdfManifest with    *)
(* any manifest object and getPageCount of any key, in any order.  The     *)
(* variable last records the call, what it returned, and the arguments of  *)
(* the latest setPdfManifest and of the one before it.                     *)
(***************************************************************************)
\* the keys looked up: those of the documents and the empty string
ManifestKeys == {EmptyKey} \cup DocKeys

\* the manifests set: any page counts for any of the documents
ManifestObjects ==
    {[loaded |-> TRUE, entries |-> f] :
        f \in UNION {[S -> 0..MaxPages] : S \in SUBSET DocKeys}}

NoManifestCall == [op |-> "none", key |-> EmptyKey, ret |-> Null,
                   isSet |-> FALSE, manifest |-> EmptyManifest,
                   previous |-> EmptyManifest]

InitManifest ==
    /\ pdfPagesCache = << >>
    /\ hung = FALSE
    /\ last = NoManifestCall
    /\ lastUse = [k \in Keys |-> 0]
    /\ lastSet = [k \in Keys |-> << >>]
    /\ now = 0
    /\ seen = {}
    /\ extraCalls = 0
    /\ insLog = << >>
    /\ InitListVars
    /\ InitCoordVars
    /\ docPages = [k \in DocKeys |-> 1]

CallSetPdfManifest(manifest) ==
    /\ pdfManifest' = setPdfManifest(manifest)
    /\ last' = [op |-> "setPdfManifest", key |-> EmptyKey, ret |-> Null,
                isSet |-> TRUE, manifest |-> manifest,
                previous |-> last.manifest]
    /\ UNCHANGED <<pdfPagesCache, hung, lastUse, lastSet, now, seen,
                   extraCalls, insLog, prefetchingSet, tasks, viewer,
                   docPages, calls, failedPrefetch, ev, listVars>>

CallGetPageCount(pdfKey) ==
    /\ last' = [last EXCEPT !.op = "getPageCount", !.key = pdfKey,
                            !.ret = getPageCount(pdfManifest, pdfKey)]
    /\ UNCHANGED <<pdfPagesCache, hung, lastUse, lastSet, now, seen,
                   extraCalls, insLog, coordVars, listVars>>

NextManifest ==
    \/ \E manifest \in ManifestObjects : CallSetPdfManifest(manifest)
    \/ \E pdfKey \in ManifestKeys : CallGetPageCount(pdfKey)

SpecManifest == InitManifest /\ [][NextManifest]_vars

(***************************************************************************)
(* The naming of the page images on its own: getPageImageUrl and the       *)
(* generator applied to a document key and a page number.  Listing and     *)
(* generator accept a key when key.toLowerCase() ends with ".pdf", so a    *)
(* key is any text of at most MaxKeyLen tokens that ends with ".pdf" or    *)
(* ".PDF".  The variable last holds the arguments and the result.          *)
(***************************************************************************)
KeyTokens == {"a", "/", ".pdf", ".PDF"}
Extensions == {".pdf", ".PDF"}

KeyTexts ==
    {stem \o <<ext>> :
        stem \in UNION {[1..n -> KeyTokens] : n \in 0..(MaxKeyLen - 1)},
        ext \in Extensions}

PageNums == 1..MaxPageNum

InitUrl ==
    /\ pdfPagesCache = << >>
    /\ hung = FALSE
    /\ last \in {[op |-> "none", key |-> key, pageNum |-> pageNum,
                   ret |-> [kind |-> "none", text |-> << >>]] :
                     key \in KeyTexts, pageNum \in PageNums}
    /\ lastUse = [k \in Keys |-> 0]
    /\ lastSet = [k \in Keys |-> << >>]
    /\ now = 0
    /\ seen = {}
    /\ extraCalls = 0
    /\ insLog = << >>
    /\ InitListVars
    /\ InitCoordVars
    /\ docPages = [k \in DocKeys |-> 1]

CallGetPageImageUrl ==
    /\ last.op # "getPageImageUrl"
    /\ last' = [last EXCEPT !.op = "getPageImageUrl",
                            !.ret = getPageImageUrl(last.key, last.pageNum)]
    /\ UNCHANGED <<pdfPagesCache, hung, lastUse, lastSet, now, seen,
                   extraCalls, insLog, coordVars, listVars>>

CallGeneratePdfImages ==
    /\ last.op # "generatePdfImages"
    /\ last' = [last EXCEPT !.op = "generatePdfImages",
                            !.ret = generatePdfImages(last.key,
                                                      last.pageNum)]
    /\ UNCHANGED <<pdfPagesCache, hung, lastUse, lastSet, now, seen,
                   extraCalls, insLog, coordVars, listVars>>

NextUrl == CallGetPageImageUrl \/ CallGeneratePdfImages

SpecUrl == InitUrl /\ [][NextUrl]_vars

(***************************************************************************)
(* Properties of the page cache, checked under SpecCache.                  *)
(***************************************************************************)

\* C1: the page cache never holds more than PDF_CACHE_MAX_SIZE entries, and
\* no state the Map passes through inside a setPdfPages call does either.
CapacityInvariant ==
    /\ Len(pdfPagesCache) <= PDF_CACHE_MAX_SIZE
    /\ last.op = "set" => last.peak <= PDF_CACHE_MAX_SIZE

\* a new key was set into a full cache
CapacityWitness ==
    /\ last.op = "set"
    /\ last.returned
    /\ Len(last.pre) = PDF_CACHE_MAX_SIZE
    /\ ~MapHas(last.pre, last.key)
    /\ Len(pdfPagesCache) = PDF_CACHE_MAX_SIZE

\* C2: a setPdfPages of a key that is not in a full cache evicts exactly one
\* entry, the one whose latest set or successful get is older than that of
\* every other entry.
LruVictim ==
    (/\ last.op = "set"
     /\ last.returned
     /\ Len(last.pre) = PDF_CACHE_MAX_SIZE
     /\ ~MapHas(last.pre, last.key))
    => \E v \in MapKeys(last.pre) :
          /\ MapKeys(pdfPagesCache)
                = (MapKeys(last.pre) \ {v}) \cup {last.key}
          /\ \A k \in MapKeys(last.pre) \ {v} : lastUse[v] < lastUse[k]

\* keys 1..10 were set in order, key 1 was read, key 11 was set: key 2 is
\* gone and key 1 is kept
LruVictimWitness ==
    /\ last.op = "set"
    /\ last.key = 11
    /\ [i \in 1..Len(last.pre) |-> last.pre[i].key]
          = <<2, 3, 4, 5, 6, 7, 8, 9, 10, 1>>
    /\ MapHas(pdfPagesCache, 1)
    /\ ~MapHas(pdfPagesCache, 2)

\* C3: after more than PDF_CACHE_MAX_SIZE calls of setPdfPages with distinct
\* keys and no other call, the cache is exactly the last PDF_CACHE_MAX_SIZE
\* entries set, oldest first, each with the pages it was set to.
LastInsertedKept ==
    (/\ last.pure
     /\ last.returned
     /\ Len(insLog) > PDF_CACHE_MAX_SIZE)
    => pdfPagesCache
          = SubSeq(insLog, Len(insLog) - PDF_CACHE_MAX_SIZE + 1, Len(insLog))

\* eleven distinct keys were set and nothing else was called
LastInsertedWitness ==
    /\ last.pure
    /\ last.returned
    /\ Len(insLog) = PDF_CACHE_MAX_SIZE + 1
    /\ ~MapHas(pdfPagesCache, insLog[1].key)

\* C4: setPdfPages of a key that is in the cache keeps the number of
\* entries, evicts no key, leaves the other entries and their order alone,
\* makes the key the most recently used one, and a getPdfPages of the key
\* then returns the new pages.
ResetExistingKey ==
    (last.op = "set" /\ MapHas(last.pre, last.key))
    => /\ last.returned
       /\ Len(pdfPagesCache) = Len(last.pre)
       /\ MapKeys(pdfPagesCache) = MapKeys(last.pre)
       /\ MapDelete(pdfPagesCache, last.key) = MapDelete(last.pre, last.key)
       /\ pdfPagesCache[Len(pdfPagesCache)].key = last.key
       /\ getPdfPages(pdfPagesCache, last.key).found
       /\ getPdfPages(pdfPagesCache, last.key).pages = last.pages

\* a key of a full cache that was not the most recent one was set to new
\* pages
ResetExistingWitness ==
    /\ last.op = "set"
    /\ MapHas(last.pre, last.key)
    /\ Len(last.pre) = PDF_CACHE_MAX_SIZE
    /\ last.pre[Len(last.pre)].key # last.key
    /\ MapValue(last.pre, last.key) # last.pages

\* C5: getPdfPages of a present key returns the pages last set for it and
\* moves the key to the most recent position, keeping the keys, the values
\* and the order of the other entries; getPdfPages of an absent key returns
\* absent and leaves the cache as it was.
GetFrame ==
    last.op = "get" =>
        IF MapHas(last.pre, last.key)
        THEN /\ last.found
             /\ last.ret = lastSet[last.key]
             /\ MapKeys(pdfPagesCache) = MapKeys(last.pre)
             /\ \A k \in MapKeys(last.pre) :
                   MapValue(pdfPagesCache, k) = MapValue(last.pre, k)
             /\ MapDelete(pdfPagesCache, last.key)
                   = MapDelete(last.pre, last.key)
             /\ pdfPagesCache[Len(pdfPagesCache)].key = last.key
        ELSE /\ ~last.found
             /\ pdfPagesCache = last.pre

\* a key in the middle of the cache was read
GetFrameWitness ==
    /\ last.op = "get"
    /\ last.found
    /\ Len(last.pre) >= 3
    /\ last.pre[2].key = last.key

(***************************************************************************)
(* Properties of the prefetch coordinators, checked under Spec.            *)
(***************************************************************************)
PrefetchTasksOf(tk, mod, key) ==
    {t \in Slots : /\ tk[t].kind = "prefetch"
                   /\ tk[t].mod = mod
                   /\ tk[t].key = key}
PrefetchTasks(mod, key) == PrefetchTasksOf(tasks, mod, key)
Pipelines(key) == {t \in Slots : Active(t) /\ tasks[t].key = key}

\* C6: within one coordinator, a prefetchPdf of a key whose earlier
\* prefetchPdf has not finished starts nothing (no task, no change of the
\* in-flight set), so the coordinator never runs two prefetches of one key.
Deduplication ==
    [][/\ (ev'.op = "prefetch" /\ ev'.key \in prefetchingSet[ev'.mod])
          => /\ tasks' = tasks
             /\ prefetchingSet' = prefetchingSet
             /\ ev'.outcome # "claimed"
       /\ \A mod \in Modules, key \in DocKeys :
             Cardinality(PrefetchTasksOf(tasks', mod, key)) <= 1]_vars

\* the second of two calls for an uncached key returned while the first
\* one is still running
DeduplicationWitness ==
    /\ ev.op = "prefetch"
    /\ ev.outcome = "inflight"
    /\ ~MapHas(pdfPagesCache, ev.key)
    /\ Cardinality(PrefetchTasks(ev.mod, ev.key)) = 1

\* C7: at most one pipeline (prefetch of either module or direct load of
\* either viewer) is active for a document key.
OnePipelinePerKey ==
    \A key \in DocKeys : Cardinality(Pipelines(key)) <= 1

\* C8: a prefetchPdf of a key that is in the cache starts no task (hence
\* no manifest read, image load or rendering) and leaves the in-flight set
\* and the manifest alone.
NoOpOnHit ==
    [][(ev'.op = "prefetch" /\ MapHas(pdfPagesCache, ev'.key))
       => /\ ev'.outcome = "cached"
          /\ tasks' = tasks
          /\ prefetchingSet' = prefetchingSet
          /\ pdfManifest' = pdfManifest]_vars

\* a cached key that is not in flight was prefetched
NoOpOnHitWitness ==
    /\ ev.op = "prefetch"
    /\ ev.outcome = "cached"
    /\ MapHas(pdfPagesCache, ev.key)
    /\ ev.key \notin prefetchingSet[ev.mod]
    /\ PrefetchTasks(ev.mod, ev.key) = {}

\* the call of this step found its key in the cache or in the in-flight set
PrefetchSkips ==
    /\ ev'.op = "prefetch"
    /\ MapHas(pdfPagesCache, ev'.key) \/ ev'.key \in prefetchingSet[ev'.mod]

\* C9 as stated: such a call leaves the cache (keys, values and recency
\* order), the in-flight set and the manifest as they were.
SkipWithoutSideEffects ==
    [][PrefetchSkips
       => /\ pdfPagesCache' = pdfPagesCache
          /\ prefetchingSet' = prefetchingSet
          /\ pdfManifest' = pdfManifest]_vars

\* C9 amended: such a call leaves the keys and values of the cache, the
\* in-flight set, the manifest and the running tasks as they were; the
\* recency order is the same too, except that a key found in the cache
\* becomes the most recently used entry.
SkipTouchesOnlyRecency ==
    [][PrefetchSkips
       => /\ prefetchingSet' = prefetchingSet
          /\ pdfManifest' = pdfManifest
          /\ tasks' = tasks
          /\ MapKeys(pdfPagesCache') = MapKeys(pdfPagesCache)
          /\ \A k \in MapKeys(pdfPagesCache) :
                MapValue(pdfPagesCache', k) = MapValue(pdfPagesCache, k)
          /\ MapDelete(pdfPagesCache', ev'.key)
                = MapDelete(pdfPagesCache, ev'.key)
          /\ IF MapHas(pdfPagesCache, ev'.key)
             THEN pdfPagesCache'[Len(pdfPagesCache')].key = ev'.key
             ELSE pdfPagesCache' = pdfPagesCache]_vars

\* a cached key was prefetched while another entry is in the cache
SkipWitness ==
    /\ ev.op = "prefetch"
    /\ ev.outcome = "cached"
    /\ Len(pdfPagesCache) >= 2
    /\ pdfPagesCache[Len(pdfPagesCache)].key = ev.key

\* C10: when a prefetch fails, the step that settles it removes the key
\* from the in-flight set of its module, leaves no prefetch of the key
\* running there and writes nothing to the cache; and a prefetchPdf of a key
\* that is neither cached nor in flight claims the key and starts a task.
CleanupOnFailure ==
    [][/\ (ev'.op = "settle" /\ ev'.kind = "prefetch"
                             /\ ev'.outcome = "failed")
          => /\ ev'.key \notin prefetchingSet'[ev'.mod]
             /\ PrefetchTasksOf(tasks', ev'.mod, ev'.key) = {}
             /\ pdfPagesCache' = pdfPagesCache
       /\ (/\ ev'.op = "prefetch"
           /\ ~MapHas(pdfPagesCache, ev'.key)
           /\ ev'.key \notin prefetchingSet[ev'.mod])
          => /\ ev'.outcome = "claimed"
             /\ ev'.key \in prefetchingSet'[ev'.mod]
             /\ Cardinality(PrefetchTasksOf(tasks', ev'.mod, ev'.key))
                   = 1]_vars

\* a key whose prefetch failed earlier was claimed again by the same module
CleanupOnFailureWitness ==
    /\ ev.op = "prefetch"
    /\ ev.outcome = "claimed"
    /\ <<ev.mod, ev.key>> \in failedPrefetch
    /\ ~MapHas(pdfPagesCache, ev.key)

(***************************************************************************)
(* Properties of the prefetches and the direct loads, continued.           *)
(***************************************************************************)

\* C11: the promise of a prefetchPdf call is never rejected, whatever its
\* import, document load, page fetch, rendering or image loads do: every
\* step of a prefetch leaves it pending or fulfilled.
NeverPropagates ==
    ev.kind = "prefetch" => ev.result \in {"pending", "fulfilled"}

\* a prefetch whose awaited promise rejected has ended, fulfilled
NeverPropagatesWitness ==
    /\ ev.op = "settle"
    /\ ev.kind = "prefetch"
    /\ ev.outcome = "failed"
    /\ ev.result = "fulfilled"
    /\ PrefetchTasks(ev.mod, ev.key) = {}

\* C12: a prefetchPdf of either module that claims a key for which the
\* manifest records N > 0 pages takes the image path: its task waits for
\* the N page-image URLs of pages 1..N and never for the PDF renderer.
ManifestPreferredPrefetch ==
    [][(/\ ev'.op = "prefetch"
        /\ ev'.outcome = "claimed"
        /\ UsesImages(pdfManifest, ev'.key))
       => \A t \in PrefetchTasksOf(tasks', ev'.mod, ev'.key) :
             /\ tasks'[t].pc = "urls"
             /\ tasks'[t].imageUrls =
                   [i \in 1..pdfManifest.entries[ev'.key] |->
                       getPageImageUrl(KeyText(ev'.key), i)]]_vars

\* the continuations of the task in slot t: the promise it awaits settles
TaskStep(t) ==
    \/ UrlsResolved(t)
    \/ \E ok \in BOOLEAN : ImageSettles(t, ok)
    \/ ImagesSettled(t)
    \/ \E ok \in BOOLEAN : ImportSettles(t, ok)
    \/ \E ok \in BOOLEAN : GetDocumentSettles(t, ok)
    \/ \E ok \in BOOLEAN : GetPageSettles(t, ok)
    \/ \E ok \in BOOLEAN : RenderSettles(t, ok)

\* every promise a task awaits settles
AwaitsSettle == \A t \in Slots : WF_vars(TaskStep(t))

\* the budget of calls of the user interface is MaxLiveCalls
InitLive ==
    /\ InitCacheVars
    /\ pdfManifest = NoManifest
    /\ prefetchingSet = [m \in Modules |-> {}]
    /\ tasks = [t \in 1..MaxTasks |-> FreeTask]
    /\ viewer = [m \in Modules |-> Unmounted]
    /\ calls = MaxCalls - MaxLiveCalls
    /\ failedPrefetch = {}
    /\ ev = NoEvent
    /\ docPages \in DocPageCounts

\* the behaviours in which every awaited promise settles
SpecLive == InitLive /\ [][Next]_vars /\ AwaitsSettle

\* C13: provided every awaited call settles, a key that is in the in-flight
\* set of a module is eventually out of it, whether its prefetch succeeds,
\* fails, finds a document without pages or takes the manifest path.
InFlightReleased ==
    \A mod \in Modules, key \in DocKeys :
        (key \in prefetchingSet[mod]) ~> (key \notin prefetchingSet[mod])

\* the prefetch of a document without pages has ended and its key is out of
\* the in-flight set
InFlightReleasedWitness ==
    /\ ev.op = "settle"
    /\ ev.kind = "prefetch"
    /\ ev.outcome = "empty"
    /\ ev.key \notin prefetchingSet[ev.mod]
    /\ ~MapHas(pdfPagesCache, ev.key)

\* C14: a step of a direct load whose effect has been cleaned up
\* (cancelled = true) writes nothing to the state of its viewer: pages,
\* loading, error and total pages stay as they are.
NoWriteAfterCancel ==
    [][\A t \in Slots :
          (/\ tasks[t].kind = "load"
           /\ tasks[t].cancelled
           /\ tasks'[t] # tasks[t]
           /\ ev'.op \notin {"open", "close"})
          => viewer' = viewer]_vars

\* the load in slot t, not cancelled, ends in this step with the outcome
LoadEnds(t, outcome) ==
    /\ tasks[t].kind = "load"
    /\ ~tasks[t].cancelled
    /\ tasks'[t].kind = "free"
    /\ ev'.op = "settle"
    /\ ev'.outcome = outcome

\* C15: a direct load that fails without having been cancelled leaves its
\* viewer with a non-empty error message and loading = false, starts no
\* new load and writes nothing to the cache; one that succeeds leaves the
\* viewer with no error and loading = false.
DirectLoadOutcome ==
    [][\A t \in Slots :
          LET v == viewer'[tasks[t].mod]
          IN  /\ LoadEnds(t, "failed")
                 => /\ v.error # NoError
                    /\ v.error # Message("")
                    /\ ~v.loading
                    /\ pdfPagesCache' = pdfPagesCache
                    /\ \A u \in Slots : tasks'[u].kind = "load"
                                           => tasks'[u] = tasks[u]
              /\ (LoadEnds(t, "done") \/ LoadEnds(t, "empty"))
                 => /\ v.error = NoError
                    /\ ~v.loading]_vars

\* the load tasks of the viewer of a module for a key
LoadTasksOf(tk, mod, key) ==
    {t \in Slots : /\ tk[t].kind = "load"
                   /\ tk[t].mod = mod
                   /\ tk[t].key = key
                   /\ ~tk[t].cancelled}

\* C16: when a viewer of either module opens a key that is not cached and
\* for which the manifest records N > 0 pages, its load takes the image
\* path: it waits for the N page-image URLs and never for the PDF renderer.
DirectLoadPrefersManifest ==
    [][(/\ ev'.op = "open"
        /\ ev'.outcome = "load"
        /\ UsesImages(pdfManifest, ev'.key))
       => \A t \in LoadTasksOf(tasks', ev'.mod, ev'.key) :
             /\ tasks'[t].pc = "urls"
             /\ tasks'[t].imageUrls =
                   [i \in 1..pdfManifest.entries[ev'.key] |->
                       getPageImageUrl(KeyText(ev'.key), i)]]_vars

\* C17: a manifest fetch that fails (response not OK, or a thrown error)
\* ends normally, and the manifest it leaves behaves as the manifest that
\* was never set: getPageCount is null for every key, and every prefetch
\* and direct load, then and later, starts on the rendering path.
FailedManifestIsNoManifest ==
    [][/\ (ev'.op = "manifest" /\ ev'.outcome = "failed")
          => /\ ev'.result = "fulfilled"
             /\ \A key \in Keys :
                   /\ getPageCount(pdfManifest', key) = Null
                   /\ getPageCount(pdfManifest', key)
                         = getPageCount(NoManifest, key)
             /\ \A kind \in {"prefetch", "load"}, mod \in Modules,
                   key \in DocKeys :
                   StartTaskWith(pdfManifest', kind, mod, key)
                      = StartTaskWith(NoManifest, kind, mod, key)
       /\ \A response \in Responses \ {"ok"}, data \in Manifests :
             (/\ pdfManifest = setPdfManifest(fetchPdfManifest(response, data))
              /\ ev'.op \in {"prefetch", "open"}
              /\ ev'.outcome \in {"claimed", "load"})
             => \A t \in Slots :
                   tasks'[t] # tasks[t] /\ tasks'[t].key = ev'.key
                      => tasks'[t].pc = "import"]_vars

\* a fetch that failed after an earlier call has left the empty manifest
FailedManifestWitness ==
    /\ ev.op = "manifest"
    /\ ev.outcome = "failed"
    /\ pdfManifest = EmptyManifest
    /\ calls >= 2

\* C18: on the manifest path of a prefetch of N pages, an image load that
\* ends in error leaves the prefetch waiting (nothing cached, key still in
\* flight), and the prefetch leaves the wait only when every load has
\* settled, by writing all N URLs of its key to the cache.
PartialImageFailure ==
    [][\A t \in Slots :
          (tasks[t].kind = "prefetch" /\ tasks[t].pc = "images")
          => /\ (ev'.op = "image" /\ tasks'[t] # tasks[t])
                => /\ tasks'[t].pc = "images"
                   /\ tasks'[t].pending = tasks[t].pending - 1
                   /\ pdfPagesCache' = pdfPagesCache
                   /\ tasks[t].key \in prefetchingSet'[tasks[t].mod]
             /\ tasks'[t].pc # "images"
                => /\ tasks[t].pending = 0
                   /\ ev'.op = "settle"
                   /\ ev'.outcome = "done"
                   /\ MapHas(pdfPagesCache', tasks[t].key)
                   /\ MapValue(pdfPagesCache', tasks[t].key)
                         = [i \in 1..Len(tasks[t].imageUrls) |->
                               getPageImageUrl(KeyText(tasks[t].key), i)]]_vars

\* a prefetch all of whose image loads ended in error has cached its URLs
PartialImageFailureWitness ==
    /\ ev.op = "settle"
    /\ ev.kind = "prefetch"
    /\ ev.outcome = "done"
    /\ ev.errors >= 2
    /\ MapHas(pdfPagesCache, ev.key)
    /\ ev.errors = Len(MapValue(pdfPagesCache, ev.key))

(***************************************************************************)
(* Properties of the manifest API, checked under SpecManifest.             *)
(***************************************************************************)

\* C19: getPageCount(key) returns null exactly when setPdfManifest has
\* never been called or the manifest of its latest call has no entry for
\* the key; otherwise it returns the page count of that entry.
PageCountLookup ==
    last.op = "getPageCount"
    => /\ (last.ret = Null)
          <=> (~last.isSet \/ last.key \notin DOMAIN last.manifest.entries)
       /\ last.ret # Null
          => last.ret = Number(last.manifest.entries[last.key])

\* getPageCount returned a count of 0 from the latest manifest although the
\* manifest set before it had another count for the key
PageCountLookupWitness ==
    /\ last.op = "getPageCount"
    /\ last.isSet
    /\ last.ret = Number(0)
    /\ last.key \in DOMAIN last.previous.entries
    /\ last.previous.entries[last.key] = MaxPages

(***************************************************************************)
(* Properties of the naming of the page images, checked under SpecUrl.     *)
(***************************************************************************)
\* the three decimal digits of a number below 1000
ThreeDigits(n) == <<Digit(n \div 100), Digit((n \div 10) % 10), Digit(n % 10)>>

\* a key without its last token, the extension
WithoutExtension(key) == SubSeq(key, 1, Len(key) - 1)

\* a key without its first ".pdf", if it has one
WithoutFirstPdf(key) ==
    LET at == {i \in 1..Len(key) : key[i] = ".pdf"}
    IN  IF at = {} THEN key
        ELSE LET i == CHOOSE i \in at : \A j \in at : i <= j
             IN  SubSeq(key, 1, i - 1) \o SubSeq(key, i + 1, Len(key))

\* the number written with the digits
RECURSIVE ParseInt(_)
ParseInt(digits) ==
    IF digits = << >> THEN 0
    ELSE 10 * ParseInt(SubSeq(digits, 1, Len(digits) - 1))
         + (CHOOSE d \in 0..9 : Digit(d) = digits[Len(digits)])

\* the page number read back from the file name page-<digits>.jpg of a URL
PageOf(text) ==
    LET at == {i \in 1..Len(text) : text[i] = "page-"}
        i == CHOOSE i \in at : \A j \in at : j <= i
    IN  ParseInt(SubSeq(text, i + 1, Len(text) - 1))

\* the URL of the page images of a directory and a file name
PageUrl(dir, digits) ==
    <<WORKER_URL, "/", "pdfs-as-jpegs", "/">> \o dir
        \o <<"/", "page-">> \o digits \o <<".jpg">>

\* C20 as stated: for the pages 1..999 the URL is page-NNN.jpg, the page
\* number padded with zeros to three digits, under the document key
\* without its extension, and the page number can be read back from the URL
\* (so distinct pages of a document have distinct URLs).
PageUrlWithoutExtension ==
    (last.op = "getPageImageUrl" /\ last.pageNum \in 1..999)
    => /\ last.ret.text = PageUrl(WithoutExtension(last.key),
                                  ThreeDigits(last.pageNum))
       /\ PageOf(last.ret.text) = last.pageNum

\* C20 amended: for the pages 1..999 the URL is page-NNN.jpg, the page
\* number padded with zeros to three digits, under the document key with
\* its first ".pdf" (lower case) removed, which is the key without its
\* extension when the key has no other ".pdf" and ends in ".pdf"; the page
\* number can be read back from the URL of any page; and the URL is that of
\* the object the generator writes for the page.
PageUrlNaming ==
    /\ (last.op = "getPageImageUrl" /\ last.pageNum \in 1..999)
       => /\ last.ret.text = PageUrl(WithoutFirstPdf(last.key),
                                     ThreeDigits(last.pageNum))
          /\ (\A i \in 1..Len(last.key) :
                 last.key[i] = ".pdf" <=> i = Len(last.key))
             => last.ret.text = PageUrl(WithoutExtension(last.key),
                                        ThreeDigits(last.pageNum))
    /\ last.op = "getPageImageUrl"
       => /\ PageOf(last.ret.text) = last.pageNum
          /\ last.ret = getPageImageUrl(last.key, last.pageNum)
    /\ last.op = "generatePdfImages"
       => <<WORKER_URL, "/">> \o last.ret.text
             = getPageImageUrl(last.key, last.pageNum).text

\* the URL of page 7 of a key that ends in ".PDF" has been computed
PageUrlNamingWitness ==
    /\ last.op = "getPageImageUrl"
    /\ last.key = <<"a", ".PDF">>
    /\ last.pageNum = 7
    /\ last.ret.text = <<WORKER_URL, "/", "pdfs-as-jpegs", "/", "a", ".PDF",
                         "/", "page-", "0", "0", "7", ".jpg">>

(***************************************************************************)
(* Properties of the page cache, continued (checked under SpecCache).      *)
(***************************************************************************)

\* C21: a clearPdfCache call leaves the cache with no entry, whatever it
\* held (afterwards getPdfPages finds no key), and changes neither the
\* manifest nor an in-flight set nor any other state of the coordinators.
ClearEmpties ==
    [][(last'.op = "clear" /\ now' # now)
       => /\ Len(pdfPagesCache') = 0
          /\ \A key \in Keys : ~getPdfPages(pdfPagesCache', key).found
          /\ pdfManifest' = pdfManifest
          /\ prefetchingSet' = prefetchingSet
          /\ UNCHANGED <<tasks, viewer>>]_vars

\* a cache that held entries without being full has been cleared
ClearEmptiesWitness ==
    /\ last.op = "clear"
    /\ Len(last.pre) \in 2..(PDF_CACHE_MAX_SIZE - 1)
    /\ pdfPagesCache = << >>

(***************************************************************************)
(* Properties of the prefetches and the direct loads, continued (checked   *)
(* under Spec).                                                            *)
(***************************************************************************)

\* C22: in every state the in-flight set of a module is exactly the set of
\* keys of its running prefetches, each of these keys has one running
\* prefetch, and a key enters the set only in the prefetchPdf call that
\* claims it and leaves it only in the step that ends that prefetch.
InFlightInvariant ==
    /\ [](\A mod \in Modules :
            /\ prefetchingSet[mod]
                  = {tasks[t].key : t \in {u \in Slots :
                                              /\ tasks[u].kind = "prefetch"
                                              /\ tasks[u].mod = mod}}
            /\ \A key \in prefetchingSet[mod] :
                  Cardinality(PrefetchTasks(mod, key)) = 1)
    /\ [][\A mod \in Modules, key \in DocKeys :
            /\ (key \notin prefetchingSet[mod]
                   /\ key \in prefetchingSet'[mod])
               => /\ ev'.op = "prefetch"
                  /\ ev'.outcome = "claimed"
                  /\ ev'.mod = mod
                  /\ ev'.key = key
            /\ (key \in prefetchingSet[mod]
                   /\ key \notin prefetchingSet'[mod])
               => /\ ev'.op = "settle"
                  /\ ev'.kind = "prefetch"
                  /\ ev'.mod = mod
                  /\ ev'.key = key
                  /\ PrefetchTasksOf(tasks', mod, key) = {}]_vars

\* two keys are in flight in one module
InFlightInvariantWitness ==
    \E mod \in Modules :
        /\ Cardinality(prefetchingSet[mod]) = 2
        /\ \A key \in prefetchingSet[mod] :
              Cardinality(PrefetchTasks(mod, key)) = 1

\* the task in slot t ends in this step
TaskEnds(t) ==
    /\ Active(t)
    /\ tasks'[t].kind = "free"
    /\ ev'.op = "settle"

\* C23: a prefetch or direct load writes to the cache only when it ends
\* with all its pages: on the rendering path the value is the pages
\* 1..N of the document, N >= 1 the page count the renderer reported; on the
\* manifest path it is the N >= 1 URLs of the manifest entry read when the
\* task started.  A task that ends otherwise (document without pages,
\* failure at any page, cancellation) leaves the cache as it was.
CompleteWrites ==
    [][/\ \A t \in Slots :
             TaskEnds(t)
             => LET T == tasks[t]
                IN  IF ev'.outcome = "done"
                    THEN /\ MapHas(pdfPagesCache', T.key)
                         /\ MapValue(pdfPagesCache', T.key) # << >>
                         /\ T.pc = "render"
                            => /\ docPages[T.key] >= 1
                               /\ MapValue(pdfPagesCache', T.key)
                                     = RenderedPages(T.key, docPages[T.key])
                         /\ T.pc \in {"urls", "images"}
                            => /\ MapValue(pdfPagesCache', T.key)
                                     = T.imageUrls
                               /\ T.pc = "images" => T.pending = 0
                    ELSE pdfPagesCache' = pdfPagesCache
       /\ (ev'.op \in {"prefetch", "open"}
              /\ ev'.outcome \in {"claimed", "load"})
          => \A t \in Slots :
                (~Active(t) /\ tasks'[t].pc = "urls")
                => /\ UsesImages(pdfManifest, ev'.key)
                   /\ Len(tasks'[t].imageUrls)
                         = pdfManifest.entries[ev'.key]
       /\ ev'.op \notin {"settle", "prefetch", "open", "render"}
          => pdfPagesCache' = pdfPagesCache]_vars

\* a direct load that rendered a document of several pages has cached them
CompleteWritesWitness ==
    /\ ev.op = "settle"
    /\ ev.kind = "load"
    /\ ev.outcome = "done"
    /\ MapHas(pdfPagesCache, ev.key)
    /\ MapValue(pdfPagesCache, ev.key) = RenderedPages(ev.key, MaxPages)
    /\ MaxPages >= 2

\* C24: when the rendering of page k of a direct load resolves, the load
\* has reported the first k - 1 pages before, reports the first k pages of
\* its document in page order to its viewer (unless the component is
\* gone), goes on with page k + 1 if there is one, and after the last page
\* caches the pages 1..N in order.
ProgressiveOrder ==
    [][\A t \in Slots :
          (/\ tasks[t].kind = "load"
           /\ tasks[t].pc = "render"
           /\ tasks'[t] # tasks[t]
           /\ ev'.op \in {"render", "settle"}
           /\ ev'.outcome \in {"ok", "done", "cancelled"})
          => LET T == tasks[t]
                 k == T.pageNum
             IN  /\ T.renderedPages = RenderedPages(T.key, k - 1)
                 /\ ~T.stale
                    => viewer'[T.mod].pages = RenderedPages(T.key, k)
                 /\ ev'.op = "render"
                    => /\ tasks'[t].renderedPages
                             = RenderedPages(T.key, k)
                       /\ tasks'[t].pageNum = k + 1
                       /\ k < docPages[T.key]
                 /\ ev'.outcome = "done"
                    => /\ k = docPages[T.key]
                       /\ MapValue(pdfPagesCache', T.key)
                             = RenderedPages(T.key, k)]_vars

\* a direct load has reported the first page of a document and goes on
ProgressiveOrderWitness ==
    /\ ev.op = "render"
    /\ ev.kind = "load"
    /\ viewer[ev.mod].filePath = ev.key
    /\ viewer[ev.mod].loading
    /\ viewer[ev.mod].pages = RenderedPages(ev.key, 1)
    /\ docPages[ev.key] >= 2

\* C25: a key that is in the cache keeps its page sequence: no write of a
\* prefetch or a direct load replaces the sequence held for a key by a
\* different one, so getPdfPages(key) returns one sequence per key.
ImmutablePerKey ==
    [][\A key \in DocKeys :
          (MapHas(pdfPagesCache, key) /\ MapHas(pdfPagesCache', key))
          => MapValue(pdfPagesCache', key) = MapValue(pdfPagesCache, key)]_vars

\* C26: every call of setPdfPages returns: the eviction loop removes an
\* entry on each iteration, also when the cache is full and its oldest
\* key is the empty string.
SetPdfPagesTerminates ==
    /\ ~hung
    /\ last.op = "set"
       => /\ last.returned
          /\ MapHas(pdfPagesCache, last.key)
          /\ Len(pdfPagesCache) < Len(last.pre) + 2

\* C27: at the step where a successful prefetch takes its key out of the
\* module's In-flight Set, the key was in the set until then and the cache
\* holds a non-empty page sequence for it afterwards; a prefetch claims a
\* key only while the cache does not hold it, so none starts between the
\* write and the release.
WriteBeforeRelease ==
    [][/\ \A mod \in Modules : \A key \in DocKeys :
             (/\ key \in prefetchingSet[mod]
              /\ key \notin prefetchingSet'[mod]
              /\ ev'.outcome = "done")
             => /\ MapHas(pdfPagesCache', key)
                /\ MapValue(pdfPagesCache', key) # << >>
                /\ PrefetchTasksOf(tasks', mod, key) = {}
       /\ \A t \in Slots :
             (/\ TaskEnds(t)
              /\ tasks[t].kind = "prefetch"
              /\ ev'.outcome = "done")
             => /\ tasks[t].key \in prefetchingSet[tasks[t].mod]
                /\ tasks[t].key \notin prefetchingSet'[tasks[t].mod]
                /\ MapHas(pdfPagesCache', tasks[t].key)
       /\ (ev'.op = "prefetch" /\ ev'.outcome = "claimed")
          => /\ ~MapHas(pdfPagesCache, ev'.key)
             /\ ev'.key \notin prefetchingSet[ev'.mod]]_vars

\* a prefetch of the page module has just cached two pages and released
\* its key
WriteBeforeReleaseWitness ==
    /\ ev.op = "settle"
    /\ ev.kind = "prefetch"
    /\ ev.mod = "page"
    /\ ev.outcome = "done"
    /\ MapHas(pdfPagesCache, ev.key)
    /\ Len(MapValue(pdfPagesCache, ev.key)) = 2
    /\ ev.key \notin prefetchingSet["page"]

\* C28: a step of a direct load whose effect has been cleaned up
\* (cancelled = true), whatever the await it was suspended on, leaves the
\* page cache as it is: same keys, same values, same recency order.
CancelledLoadWritesNoCache ==
    [][\A t \in Slots :
          (/\ tasks[t].kind = "load"
           /\ tasks[t].cancelled
           /\ tasks'[t] # tasks[t]
           /\ ev'.op \notin {"open", "close"})
          => /\ pdfPagesCache' = pdfPagesCache
             /\ ev'.outcome # "done"]_vars

\* a load cancelled before its cache write has ended, its document has
\* pages and the cache does not hold them
CancelledLoadWritesNoCacheWitness ==
    /\ ev.op = "settle"
    /\ ev.kind = "load"
    /\ ev.outcome = "cancelled"
    /\ docPages[ev.key] >= 1
    /\ ~MapHas(pdfPagesCache, ev.key)
    /\ \A t \in Slots : ~(tasks[t].kind = "load" /\ tasks[t].key = ev.key)

(***************************************************************************)
(* The files list of src/lib/cache.ts on its own.  An item is a key and a  *)
(* size; two items with one key may differ in size.  A cursor is null      *)
(* (<< >>) or a key (<<key>>).                                             *)
(***************************************************************************)
FileKeys == 1..NFileKeys
FileSizes == {10, 20}
FileItems == [key : FileKeys, size : FileSizes]
Batches == UNION {[1..n -> FileItems] : n \in 0..MaxBatch}
FileCursors == {Null} \cup {<<k>> : k \in FileKeys}

KeysOf(files) == {files[i].key : i \in 1..Len(files)}

\* newFiles.filter(f => !existingKeys.has(f.key))
Filter(newFiles, existingKeys) ==
    LET Unique(f) == f.key \notin existingKeys
    IN  SelectSeq(newFiles, Unique)

appendToFilesCache(cache, newFiles, cursor, hasMore) ==
    LET existingKeys == KeysOf(cache.files)
        uniqueNewFiles == Filter(newFiles, existingKeys)
    IN  [files |-> cache.files \o uniqueNewFiles,
         cursor |-> cursor,
         hasMore |-> hasMore]

resetFilesCache == EmptyFilesCache

InitFiles ==
    /\ InitCacheVars
    /\ InitCoordVars
    /\ docPages = [k \in DocKeys |-> 1]

CallAppendToFilesCache(newFiles, cursor, hasMore) ==
    /\ filesCache' = appendToFilesCache(filesCache, newFiles, cursor, hasMore)
    /\ filesCall' = [op |-> "append", newFiles |-> newFiles,
                     cursor |-> cursor, hasMore |-> hasMore]
    /\ UNCHANGED <<pdfPagesCache, hung, last, lastUse, lastSet, now, seen,
                   extraCalls, insLog, coordVars, bucket, listing>>

CallResetFilesCache ==
    /\ filesCache' = resetFilesCache
    /\ filesCall' = [NoFilesCall EXCEPT !.op = "reset"]
    /\ UNCHANGED <<pdfPagesCache, hung, last, lastUse, lastSet, now, seen,
                   extraCalls, insLog, coordVars, bucket, listing>>

NextFiles ==
    \/ \E newFiles \in Batches : \E cursor \in FileCursors :
       \E hasMore \in BOOLEAN :
          CallAppendToFilesCache(newFiles, cursor, hasMore)
    \/ CallResetFilesCache

SpecFiles == InitFiles /\ [][NextFiles]_vars

IsPrefix(s, t) == Len(s) <= Len(t) /\ SubSeq(t, 1, Len(s)) = s

\* C29: the keys of the files list are pairwise distinct in every state
\* reached from the reset list by appendToFilesCache calls; a call keeps
\* the items it finds at their positions and sets cursor and hasMore to
\* its arguments.
FilesDistinct ==
    /\ [](\A i, j \in 1..Len(filesCache.files) :
             i # j => filesCache.files[i].key # filesCache.files[j].key)
    /\ [][filesCall'.op = "append"
          => /\ IsPrefix(filesCache.files, filesCache'.files)
             /\ filesCache'.cursor = filesCall'.cursor
             /\ filesCache'.hasMore = filesCall'.hasMore]_vars

(***************************************************************************)
(* The paginated listing /api/files of the worker and a client that        *)
(* repeats the request with the cursor it was given.  Object keys are      *)
(* numbers in the bucket's listing order; the prefix parameter is left at  *)
(* its default "".  A JavaScript number is [nan, n].                       *)
(***************************************************************************)
ObjectKinds == {"absent", "pdf", "other"}
Buckets == [ObjKeys -> ObjectKinds]

NaN == [nan |-> TRUE, n |-> 0]
Num(n) == [nan |-> FALSE, n |-> n]

\* the values of the limit parameter: missing, not a number, a number
LimitParams ==
    {NoLimit, [given |-> TRUE, nan |-> TRUE, n |-> 0]}
    \cup {[given |-> TRUE, nan |-> FALSE, n |-> n] :
             n \in (0 - 1)..(LimitCap + 1)}

\* Math.min(parseInt(url.searchParams.get("limit") || "100"), 1000)
LimitOf(param) ==
    LET parsed == IF ~param.given THEN Num(DefaultLimit)
                  ELSE IF param.nan THEN NaN
                  ELSE Num(param.n)
    IN  IF parsed.nan THEN NaN
        ELSE IF parsed.n < LimitCap THEN parsed ELSE Num(LimitCap)

\* x <= limit and x > limit of JavaScript: false when limit is NaN
LessEq(x, limit) == ~limit.nan /\ x <= limit.n
Greater(x, limit) == ~limit.nan /\ x > limit.n

\* files.slice(0, limit)
Slice(files, limit) ==
    LET len == Len(files)
        end == IF limit.nan THEN 0
               ELSE IF limit.n < 0
               THEN (IF len + limit.n < 0 THEN 0 ELSE len + limit.n)
               ELSE (IF limit.n < len THEN limit.n ELSE len)
    IN  SubSeq(files, 1, end)

RECURSIVE Ascending(_)
Ascending(keys) ==
    IF keys = {} THEN << >>
    ELSE LET first == CHOOSE k \in keys : \A j \in keys : k <= j
         IN  <<first>> \o Ascending(keys \ {first})

\* env.R2_BUCKET.list({ limit, startAfter | cursor }): the objects after
\* the given key in listing order, at most limit of them
R2List(b, after, limit) ==
    LET from == IF after = Null THEN 0 ELSE after[1]
        rest == Ascending({k \in ObjKeys : b[k] # "absent" /\ k > from})
        n == IF limit < Len(rest) THEN limit ELSE Len(rest)
    IN  [objects |-> SubSeq(rest, 1, n),
         truncated |-> Len(rest) > limit,
         cursor |-> IF Len(rest) > limit THEN <<rest[n]>> ELSE Null]

\* obj.key.toLowerCase().endsWith(".pdf")
IsPdf(b, key) == b[key] = "pdf"

\* while (files.length <= limit && hasMoreInBucket) { ... }
RECURSIVE ListLoop(_, _, _, _)
ListLoop(b, limit, startAfter, st) ==
    IF ~(LessEq(Len(st.files), limit) /\ st.hasMoreInBucket) THEN st
    ELSE LET useStart == st.isFirstRequest /\ startAfter # Null
             after == IF useStart THEN startAfter ELSE st.bucketCursor
             listed == R2List(b, after, R2ListLimit)
             IsFile(key) == IsPdf(b, key)
         IN  ListLoop(b, limit, startAfter,
                 [files |-> st.files \o SelectSeq(listed.objects, IsFile),
                  hasMoreInBucket |-> listed.truncated,
                  bucketCursor |-> IF listed.truncated THEN listed.cursor
                                   ELSE Null,
                  isFirstRequest |-> st.isFirstRequest /\ ~useStart])

\* the response of /api/files?cursor=...&limit=...
ListFiles(b, cursor, param) ==
    LET limit == LimitOf(param)
        st == ListLoop(b, limit, cursor,
                  [files |-> << >>, hasMoreInBucket |-> TRUE,
                   bucketCursor |-> Null, isFirstRequest |-> TRUE])
        hasMore == Greater(Len(st.files), limit) \/ st.hasMoreInBucket
        returnFiles == Slice(st.files, limit)
        nextCursor == IF hasMore /\ Len(returnFiles) > 0
                      THEN <<returnFiles[Len(returnFiles)]>>
                      ELSE Null
    IN  [files |-> returnFiles, truncated |-> hasMore,
         cursor |-> nextCursor, totalReturned |-> Len(returnFiles)]

InitListing ==
    /\ InitCacheVars
    /\ InitCoordVars
    /\ docPages = [k \in DocKeys |-> 1]

\* objects are uploaded to the bucket while no listing is going on
PutObject(key, kind) ==
    /\ listing.phase = "idle"
    /\ bucket[key] = "absent"
    /\ kind # "absent"
    /\ bucket' = [bucket EXCEPT ![key] = kind]
    /\ UNCHANGED <<pdfPagesCache, hung, last, lastUse, lastSet, now, seen,
                   extraCalls, insLog, coordVars, filesCache, filesCall,
                   listing>>

Answered(param, response, received) ==
    [phase |-> IF response.truncated THEN "more" ELSE "done",
     limit |-> param,
     response |-> response,
     received |-> received \o response.files]

\* the first request: no cursor
FirstRequest(param) ==
    /\ listing.phase = "idle"
    /\ listing' = Answered(param, ListFiles(bucket, Null, param), << >>)
    /\ UNCHANGED <<pdfPagesCache, hung, last, lastUse, lastSet, now, seen,
                   extraCalls, insLog, coordVars, filesCache, filesCall,
                   bucket>>

\* the request repeated with the cursor of the last response
NextRequest ==
    /\ listing.phase = "more"
    /\ listing' = Answered(listing.limit,
                           ListFiles(bucket, listing.response.cursor,
                                     listing.limit),
                           listing.received)
    /\ UNCHANGED <<pdfPagesCache, hung, last, lastUse, lastSet, now, seen,
                   extraCalls, insLog, coordVars, filesCache, filesCall,
                   bucket>>

NextListing ==
    \/ \E key \in ObjKeys : \E kind \in ObjectKinds : PutObject(key, kind)
    \/ \E param \in LimitParams : FirstRequest(param)
    \/ NextRequest

SpecListing == InitListing /\ [][NextListing]_vars

PdfKeys(b) == Ascending({k \in ObjKeys : b[k] = "pdf"})

\* C30: a response holds at most limit files, all PDFs in ascending
\* order; a response with truncated = true carries a cursor that is a
\* key; the requests of a client never repeat a key, and when the client
\* is told truncated = false it has received every PDF key of the bucket
\* once, in ascending order.
ListingProgress ==
    LET r == listing.response
        limit == LimitOf(listing.limit)
    IN  listing.phase # "idle"
        => /\ (~limit.nan /\ limit.n >= 0) => Len(r.files) <= limit.n
           /\ IsPrefix(listing.received, PdfKeys(bucket))
           /\ r.truncated => r.cursor # Null
           /\ listing.phase = "done" => listing.received = PdfKeys(bucket)

====
